---- MODULE Spec2Model ----
(***************************************************************************)
(* State-machine model of the TelegrativeAI bot (src/telegram_process.py,  *)
(* src/main.py, src/model_manager.py, src/helpers/*.py).                   *)
(*                                                                         *)
(* The application is built without concurrent_updates (main.py:35), so    *)
(* python-telegram-bot runs one update's handler to completion (and, if    *)
(* it raised, the error handler) before it takes the next update: one      *)
(* action of the model is one update.  context.user_data is the            *)
(* dictionary the framework keeps for the sender of the update; the code   *)
(* indexes that dictionary with the module-level global `user`.            *)
(*                                                                         *)
(* Texts are sequences of tokens.  Text typed by a user is a sequence of   *)
(* one-character tokens; literals of the source are kept as one token.     *)
(***************************************************************************)
EXTENDS Integers, Sequences, FiniteSets, TLC

VARIABLES
  user,       \* global `user` of telegram_process.py (start)
  user_name,  \* global `user_name` of telegram_process.py (start)
  manager,    \* global `manager` of telegram_process.py (check_user)
  user_data,  \* context.user_data of every sender: sender -> key -> session
  disk,       \* the temporary audio files that exist on disk
  validated,  \* history: the keys check_api_key succeeded for in this process
  last        \* history: the update processed last and what its handlers did

vars == <<user, user_name, manager, user_data, disk, validated, last>>

(***************************************************************************)
(* Bounds and sample inputs                                                *)
(***************************************************************************)
MaxFiles == 1

TempNames == <<"tmp1.ogg", "tmp2.ogg", "tmp3.ogg", "tmp4.ogg">>

Users == {"u1", "u2"}

FullName(u) == IF u = "u1" THEN <<"Ann">> ELSE <<"Bob">>

T_hi == <<"h", "i">>
T_draw == <<"d", "r", "a", "w", " ", "x">>
T_Draw == <<"a", " ", "D", "r", "A", "w">>
K_good == <<"s", "k", "-", "a", "b", "c", "1", "x", "y", "z">>
K_bad == <<"s", "k", "-", "b", "a", "d", "0", "0", "0">>
K_draw == <<"s", "k", "-", "q", "D", "r", "a", "W", "9">>

Texts == {T_hi, T_draw, T_Draw, K_good, K_bad, K_draw}

\* keys the hosted service accepts (models.list() succeeds unless the network fails)
ValidKeys == {K_good, K_draw}

\* texts of earlier messages a new message may be a reply to
RepliedTexts == {T_hi}

MimeTypes == {"text/plain", "application/pdf", "application/msword"}

\* the files sent to the bot
Docs == {"doc1"}

\* the files the retrieval functions are applied to
RagDocs == {"doc1", "doc2", "doc3"}

\* the page texts PyPDFLoader yields for a file: doc1 is one short page,
\* doc2 five pages of different lengths, doc3 one page of 1001 characters
DocPages(d) ==
  CASE d = "doc1" -> << <<"1", "2", "3">> >>
    [] d = "doc2" -> << <<"A">>, <<"B", "B">>, <<"C", "C", "C">>, <<"D", "D", "D", "D">>,
                        <<"E", "E", "E", "E", "E">> >>
    [] OTHER -> << [i \in 1..1001 |-> "z"] >>

RECURSIVE Concat(_)
\* the texts of a sequence, joined without separator
Concat(texts) == IF texts = <<>> THEN <<>> ELSE Head(texts) \o Concat(Tail(texts))

\* the text requests.get returns for a file
DocText(d) == Concat(DocPages(d))

\* None of Python, for text-valued fields
None == <<"None">>

\* a name that was never assigned (reading it raises NameError)
Undefined == "undefined"

(***************************************************************************)
(* Python string operations used by the handlers                           *)
(***************************************************************************)
UpperAlpha == <<"A","B","C","D","E","F","G","H","I","J","K","L","M","N","O","P","Q","R","S","T","U","V","W","X","Y","Z">>

LowerAlpha == <<"a","b","c","d","e","f","g","h","i","j","k","l","m","n","o","p","q","r","s","t","u","v","w","x","y","z">>

\* str.lower() on one character
LowerChar(c) ==
  IF \E i \in 1..26 : UpperAlpha[i] = c
  THEN LowerAlpha[CHOOSE i \in 1..26 : UpperAlpha[i] = c]
  ELSE c

\* str.lower()
Lower(s) == [i \in 1..Len(s) |-> LowerChar(s[i])]

\* sub in s
Contains(sub, s) ==
  \E i \in 1..(Len(s) - Len(sub) + 1) : SubSeq(s, i, i + Len(sub) - 1) = sub

\* s.startswith(p)
StartsWith(s, p) == Len(s) >= Len(p) /\ SubSeq(s, 1, Len(p)) = p

\* s[:n]
Prefix(s, n) == SubSeq(s, 1, IF n < Len(s) THEN n ELSE Len(s))

\* s[-n:]
Suffix(s, n) == SubSeq(s, IF Len(s) > n THEN Len(s) - n + 1 ELSE 1, Len(s))

DRAW == <<"d", "r", "a", "w">>

SK == <<"s", "k", "-">>

(***************************************************************************)
(* Sessions                                                                *)
(***************************************************************************)
\* OpenAIModelManager(api_key): .model and .lang_model both built from api_key
OpenAIModelManager(api_key) == [api_key |-> api_key]

\* absence of an object (no dictionary entry / global never assigned)
NoSession == [api_key |-> <<>>]

\* k in context.user_data, for the sender s
HasKey(ud, s, k) == k \in Users /\ ud[s][k] # NoSession

(***************************************************************************)
(* Results of the hosted models (uninterpreted, tagged by their input)     *)
(***************************************************************************)
ChatResponse(prompt) == <<"chat(">> \o prompt \o <<")">>

Transcript(f) == <<"transcript(", f, ")">>

ImageUrl(prompt) == <<"url(">> \o prompt \o <<")">>

RevisedPrompt(prompt) == <<"revised(">> \o prompt \o <<")">>

(***************************************************************************)
(* Steps of a handler.  A handler is the sequence of the steps its code    *)
(* executes from a given state: external calls (each may raise), raises of *)
(* the interpreter, and assignments.                                       *)
(***************************************************************************)
Step(op, api, a, b, must) == [op |-> op, api |-> api, a |-> a, b |-> b, must |-> must]

\* an awaited / blocking external call that succeeds or raises
Call(api, a, b) == Step("call", api, a, b, FALSE)

\* an external call that raises whenever `must` holds
CallMust(api, a, b, must) == Step("call", api, a, b, must)

\* an exception raised by the interpreter itself
Raise(exc) == Step("raise", exc, <<>>, <<>>, FALSE)

SetUser(id, name) == Step("set_user", "", <<id>>, name, FALSE)

SetManager(key) == Step("set_manager", "", key, <<>>, FALSE)

Store(k) == Step("store", "", <<k>>, <<>>, FALSE)

Pop(k) == Step("pop", "", <<k>>, <<>>, FALSE)

MkFile(f) == Step("mkfile", "", <<f>>, <<>>, FALSE)

RmFile(f) == Step("rmfile", "", <<f>>, <<>>, FALSE)

\* number of external calls in a step sequence
NumCalls(steps) == Cardinality({i \in 1..Len(steps) : steps[i].op = "call"})

\* effect of one executed step on the program state, for sender s
Apply(st, s, step) ==
  CASE step.op = "set_user" -> [st EXCEPT !.user = step.a[1], !.user_name = step.b]
    [] step.op = "set_manager" -> [st EXCEPT !.manager = OpenAIModelManager(step.a)]
    [] step.op = "store" -> [st EXCEPT !.user_data[s][step.a[1]] = st.manager]
    [] step.op = "pop" -> [st EXCEPT !.user_data[s][step.a[1]] = NoSession]
    [] step.op = "mkfile" -> [st EXCEPT !.disk = st.disk \cup {step.a[1]}]
    [] step.op = "rmfile" -> [st EXCEPT !.disk = st.disk \ {step.a[1]}]
    [] step.op = "call" /\ step.api = "models_list" -> [st EXCEPT !.validated = st.validated \cup {step.a}]
    [] OTHER -> st

RECURSIVE RunFrom(_, _, _, _, _, _, _)
\* execute steps[i..]; n external calls were made so far; the failAt-th raises
RunFrom(st, s, steps, i, n, failAt, log) ==
  IF i > Len(steps) THEN [st |-> st, log |-> log, raised |-> FALSE]
  ELSE LET step == steps[i] IN
    IF step.op = "raise"
    THEN [st |-> st, log |-> Append(log, step), raised |-> TRUE]
    ELSE IF step.op = "call"
    THEN IF n + 1 = failAt \/ step.must
         THEN [st |-> st, log |-> Append(log, [step EXCEPT !.op = "failed"]), raised |-> TRUE]
         ELSE RunFrom(Apply(st, s, step), s, steps, i + 1, n + 1, failAt, Append(log, step))
    ELSE RunFrom(Apply(st, s, step), s, steps, i + 1, n, failAt, Append(log, step))

Run(st, s, steps, failAt) == RunFrom(st, s, steps, 1, 0, failAt, <<>>)

(***************************************************************************)
(* Updates                                                                 *)
(***************************************************************************)
Update(kind, sender, text, reply, mime, caption, data) ==
  [kind |-> kind, sender |-> sender, text |-> text, reply |-> reply,
   mime |-> mime, caption |-> caption, data |-> data]

NoUpdate == Update("none", "", None, None, "", None, "")

\* update.message is None for a callback-query update
HasMessage(upd) == upd.kind # "callback"

(***************************************************************************)
(* Handlers of src/telegram_process.py                                     *)
(***************************************************************************)
START_MESSAGE == <<"Here are the skills I can offer you, ... you can use /off code.">>

HelloText(name) == <<"Hello ">> \o name \o <<" , What Can I Help With ?">>

GreetText(name) == <<"Hello ">> \o name \o <<", I'm TelegrativeAI">>

KeyEcho(data) == <<"Key : ">> \o Prefix(data, 3) \o <<"*************">> \o Suffix(data, 3) \o <<" success">>

\* the value of context.user_data[user], or the exception the lookup raises
LookupRaises(st, upd) ==
  IF st.user = Undefined THEN <<Raise("NameError")>>
  ELSE IF ~HasKey(st.user_data, upd.sender, st.user) THEN <<Raise("KeyError")>>
  ELSE <<>>

\* OpenAIHelper.check_api_key: models.list() raises when the key is rejected
check_api_key(api_key) ==
  <<CallMust("models_list", api_key, <<>>, api_key \notin ValidKeys)>>

validate_api_key(api_key) == check_api_key(api_key)

\* mutant of OpenAIModelManager_init: the constructor does not validate
OpenAIModelManager_init_unvalidated(api_key) == <<>>

\* OpenAIModelManager.__init__: build the helpers, then validate the key
OpenAIModelManager_init(api_key) == validate_api_key(api_key)

hello(st, upd) ==
  IF ~HasMessage(upd) THEN <<Raise("AttributeError")>>
  ELSE IF st.user_name = <<Undefined>> THEN <<Raise("NameError")>>
  ELSE <<Call("reply_markdown", HelloText(st.user_name), <<>>)>>

question(st, upd) ==
  <<Call("reply_text", <<"Would you like to continue?">>, <<"Yes", "No">>)>>

\* mutant of check_user: the session is stored as soon as it is validated,
\* before the replies
check_user_store_first(st, upd, data) ==
  IF st.user = Undefined THEN <<Raise("NameError")>>
  ELSE IF ~HasKey(st.user_data, upd.sender, st.user)
  THEN IF data # None /\ data # <<>>
       THEN OpenAIModelManager_init(data)
            \o <<SetManager(data), Store(st.user),
                 Call("reply_text", KeyEcho(data), <<>>)>>
            \o hello(st, upd)
       ELSE <<Call("reply_markdown", START_MESSAGE, <<>>)>> \o question(st, upd)
  ELSE hello(st, upd)

check_user(st, upd, data) ==
  IF st.user = Undefined THEN <<Raise("NameError")>>
  ELSE IF ~HasKey(st.user_data, upd.sender, st.user)
  THEN IF data # None /\ data # <<>>
       THEN OpenAIModelManager_init(data)
            \o <<SetManager(data),
                 Call("reply_text", KeyEcho(data), <<>>)>>
            \o hello(st, upd)
            \o <<Store(st.user)>>
       ELSE <<Call("reply_markdown", START_MESSAGE, <<>>)>>
            \o question(st, upd)
  ELSE hello(st, upd)

\* mutant of start: the animation is sent before the greeting
start_animation_first(st, upd) ==
  IF ~HasMessage(upd) THEN <<Raise("AttributeError")>>
  ELSE LET name == FullName(upd.sender)
           st1 == [st EXCEPT !.user = upd.sender, !.user_name = name]
       IN <<SetUser(upd.sender, name),
            Call("reply_animation", <<"JFz7YZA0vhiGlAYCSn">>, <<>>),
            Call("reply_markdown", GreetText(name), <<>>)>>
          \o check_user(st1, upd, None)

start(st, upd) ==
  IF ~HasMessage(upd) THEN <<Raise("AttributeError")>>
  ELSE LET name == FullName(upd.sender)
           st1 == [st EXCEPT !.user = upd.sender, !.user_name = name]
       IN <<SetUser(upd.sender, name),
            Call("reply_markdown", GreetText(name), <<>>),
            Call("reply_animation", <<"JFz7YZA0vhiGlAYCSn">>, <<>>)>>
          \o check_user(st1, upd, None)


(***************************************************************************)
(* Retrieval (src/helpers/langchain_helper.py).  The splitter, the vector  *)
(* store and the embeddings are library code: the splitter is modelled on  *)
(* texts without separators (a page is cut every chunk_size characters),   *)
(* the distance between embeddings by a fixed function of the two texts.   *)
(***************************************************************************)
\* as_retriever(): the number of chunks a search returns
TOP_K == 4

\* RecursiveCharacterTextSplitter(chunk_size, chunk_overlap=0).split_text
split_text(text, chunk_size) ==
  [i \in 1..((Len(text) + chunk_size - 1) \div chunk_size) |->
     SubSeq(text, (i - 1) * chunk_size + 1,
            IF i * chunk_size < Len(text) THEN i * chunk_size ELSE Len(text))]

RECURSIVE split_documents(_, _)
\* split_documents: every document is split on its own, in source order
split_documents(docs, chunk_size) ==
  IF docs = <<>> THEN <<>>
  ELSE split_text(Head(docs), chunk_size) \o split_documents(Tail(docs), chunk_size)

\* the distance of the embeddings of a chunk and of the question
Distance(chunk, q) ==
  IF Len(chunk) >= Len(q) THEN Len(chunk) - Len(q) ELSE Len(q) - Len(chunk)

\* mutant of from_documents: the index is kept between calls, so it also
\* holds the chunks of the other documents
from_documents_shared(chunks) ==
  chunks \o split_documents(DocPages("doc1") \o DocPages("doc2") \o DocPages("doc3"), 1000)

\* FAISS.from_documents: a fresh index over exactly the given chunks
from_documents(chunks) == chunks

\* retriever.get_relevant_documents: the TOP_K nearest chunks, nearest first
get_relevant_documents(index, q) ==
  LET n == Len(index)
      pos(i) == 1 + Cardinality({j \in 1..n :
                   \/ Distance(index[j], q) < Distance(index[i], q)
                   \/ Distance(index[j], q) = Distance(index[i], q) /\ j < i})
  IN [r \in 1..(IF n < TOP_K THEN n ELSE TOP_K) |-> index[CHOOSE i \in 1..n : pos(i) = r]]

rag_with_documents(filepath, prompt) ==
  LET raw_documents == DocPages(filepath)
      splitted_documents == split_documents(raw_documents, 1000)
      vector_store == from_documents(splitted_documents)
      relevant_documents == get_relevant_documents(vector_store, prompt)
      context_data == Concat(relevant_documents)
      final_prompt == <<"\"Here is your question: ">> \o prompt
                      \o <<"\n        We have the following information to answer it: ">>
                      \o context_data
                      \o <<".\n        Use only the information provided here to answer the question. Do not go beyond this.\"\n        ">>
  IN <<Call("PyPDFLoader.load", <<filepath>>, <<>>),
       CallMust("FAISS.from_documents", <<filepath>>, <<>>, splitted_documents = <<>>),
       Call("get_relevant_documents", prompt, context_data),
       Call("chat_message", final_prompt, <<>>)>>

\* mutant of rag_with_documents_from_text: the chunks are joined with a newline
rag_with_documents_from_text_newline(filepath, text_content, prompt) ==
  LET raw_documents == <<text_content>>
      splitted_documents == split_documents(raw_documents, 1000)
      vector_store == from_documents(splitted_documents)
      relevant_documents == get_relevant_documents(vector_store, prompt)
      context_data == Concat([i \in 1..Len(relevant_documents) |-> relevant_documents[i] \o <<"\n">>])
      final_prompt == <<"\"Here is your question: ">> \o prompt
                      \o <<"\n        We have the following information to answer it: ">>
                      \o context_data
                      \o <<".\n        Use only the information provided here to answer the question. Do not go beyond this.\"\n        ">>
  IN <<CallMust("FAISS.from_documents", <<filepath>>, <<>>, splitted_documents = <<>>),
       Call("get_relevant_documents", prompt, context_data),
       Call("chat_message", final_prompt, <<>>)>>

\* filepath names the file text_content came from (it only labels the log)
rag_with_documents_from_text(filepath, text_content, prompt) ==
  LET raw_documents == <<text_content>>
      splitted_documents == split_documents(raw_documents, 1000)
      vector_store == from_documents(splitted_documents)
      relevant_documents == get_relevant_documents(vector_store, prompt)
      context_data == Concat(relevant_documents)
      final_prompt == <<"\"Here is your question: ">> \o prompt
                      \o <<"\n        We have the following information to answer it: ">>
                      \o context_data
                      \o <<".\n        Use only the information provided here to answer the question. Do not go beyond this.\"\n        ">>
  IN <<CallMust("FAISS.from_documents", <<filepath>>, <<>>, splitted_documents = <<>>),
       Call("get_relevant_documents", prompt, context_data),
       Call("chat_message", final_prompt, <<>>)>>

\* what a retrieval returns: the answer of its chat call, the last step
Returned(steps) == ChatResponse(steps[Len(steps)].a)

SUMMARIZE == <<"Summarize this file">>

REJECTION == <<"Please send the file in PDF or TXT format">>

\* mutant of handle_file: no test of the MIME type, what is not plain text
\* is read as a PDF
handle_file_no_type_test(st, upd) ==
  LET caption == IF upd.caption # None THEN upd.caption ELSE SUMMARIZE
      from_text == rag_with_documents_from_text(upd.data, DocText(upd.data), caption)
      from_file == rag_with_documents(upd.data, caption)
      lookup == LookupRaises(st, upd)
  IN
  <<Call("get_file", <<upd.data>>, <<>>)>>
  \o (IF upd.mime = "text/plain"
      THEN <<Call("requests_get", <<upd.data>>, <<>>)>>
           \o (IF lookup # <<>> THEN lookup
               ELSE from_text \o <<Call("reply_text", Returned(from_text), <<>>)>>)
      ELSE IF lookup # <<>> THEN lookup
           ELSE from_file \o <<Call("reply_text", Returned(from_file), <<>>)>>)

\* mutant of handle_file: no default question, a missing caption is passed on
handle_file_no_default(st, upd) ==
  LET caption == upd.caption
      from_text == rag_with_documents_from_text(upd.data, DocText(upd.data), caption)
      from_file == rag_with_documents(upd.data, caption)
      lookup == LookupRaises(st, upd)
  IN
  <<Call("get_file", <<upd.data>>, <<>>)>>
  \o (IF upd.mime = "text/plain"
      THEN <<Call("requests_get", <<upd.data>>, <<>>)>>
           \o (IF lookup # <<>> THEN lookup
               ELSE from_text \o <<Call("reply_text", Returned(from_text), <<>>)>>)
      ELSE IF upd.mime = "application/pdf"
      THEN IF lookup # <<>> THEN lookup
           ELSE from_file \o <<Call("reply_text", Returned(from_file), <<>>)>>
      ELSE <<Call("reply_text", REJECTION, <<>>)>>)

\* mutant of handle_file: the caption is dropped, the question is always the
\* default one
handle_file_default_question(st, upd) ==
  LET caption == SUMMARIZE
      from_text == rag_with_documents_from_text(upd.data, DocText(upd.data), caption)
      from_file == rag_with_documents(upd.data, caption)
      lookup == LookupRaises(st, upd)
  IN
  <<Call("get_file", <<upd.data>>, <<>>)>>
  \o (IF upd.mime = "text/plain"
      THEN <<Call("requests_get", <<upd.data>>, <<>>)>>
           \o (IF lookup # <<>> THEN lookup
               ELSE from_text \o <<Call("reply_text", Returned(from_text), <<>>)>>)
      ELSE IF upd.mime = "application/pdf"
      THEN IF lookup # <<>> THEN lookup
           ELSE from_file \o <<Call("reply_text", Returned(from_file), <<>>)>>
      ELSE <<Call("reply_text", REJECTION, <<>>)>>)

handle_file(st, upd) ==
  LET caption == IF upd.caption # None THEN upd.caption ELSE SUMMARIZE
      from_text == rag_with_documents_from_text(upd.data, DocText(upd.data), caption)
      from_file == rag_with_documents(upd.data, caption)
      \* context.user_data[user] is evaluated first: nothing is called if it raises
      lookup == LookupRaises(st, upd)
  IN
  <<Call("get_file", <<upd.data>>, <<>>)>>
  \o (IF upd.mime = "text/plain"
      THEN <<Call("requests_get", <<upd.data>>, <<>>)>>
           \o (IF lookup # <<>> THEN lookup
               ELSE from_text \o <<Call("reply_text", Returned(from_text), <<>>)>>)
      ELSE IF upd.mime = "application/pdf"
      THEN IF lookup # <<>> THEN lookup
           ELSE from_file \o <<Call("reply_text", Returned(from_file), <<>>)>>
      ELSE <<Call("reply_text", REJECTION, <<>>)>>)

\* mutant of send_image: the two results of create_image are unpacked swapped
send_image_swapped(st, upd) ==
  LookupRaises(st, upd)
  \o <<Call("create_image", upd.text, <<"1024x1024">>),
       Call("reply_photo", RevisedPrompt(upd.text), ImageUrl(upd.text))>>

send_image(st, upd) ==
  LookupRaises(st, upd)
  \o <<Call("create_image", upd.text, <<"1024x1024">>),
       Call("reply_photo", ImageUrl(upd.text), RevisedPrompt(upd.text))>>

\* mutant of get_message: the startswith("sk-") test is missing, so every
\* text that is not a reply and has no "draw" is handed to check_user as a key
get_message_no_prefix_test(st, upd) ==
  IF upd.reply # None
  THEN LET prompt == upd.reply \o <<" in addition to ">> \o upd.text IN
       LookupRaises(st, upd)
       \o <<Call("chat_message", prompt, <<>>),
            Call("reply_markdown", ChatResponse(prompt), <<>>)>>
  ELSE IF Contains(DRAW, Lower(upd.text))
  THEN send_image(st, upd)
  ELSE <<Call("delete", upd.text, <<>>)>> \o check_user(st, upd, upd.text)

\* mutant of get_message: the key is checked first, the message deleted after
get_message_delete_after(st, upd) ==
  IF upd.reply # None
  THEN LET prompt == upd.reply \o <<" in addition to ">> \o upd.text IN
       LookupRaises(st, upd)
       \o <<Call("chat_message", prompt, <<>>),
            Call("reply_markdown", ChatResponse(prompt), <<>>)>>
  ELSE IF Contains(DRAW, Lower(upd.text))
  THEN send_image(st, upd)
  ELSE IF StartsWith(upd.text, SK)
  THEN check_user(st, upd, upd.text) \o <<Call("delete", upd.text, <<>>)>>
  ELSE LookupRaises(st, upd)
       \o <<Call("chat_message", upd.text, <<>>),
            Call("reply_markdown", ChatResponse(upd.text), <<>>)>>

\* mutant of get_message: the tests on the text come before the test for a
\* reply
get_message_reply_last(st, upd) ==
  IF Contains(DRAW, Lower(upd.text))
  THEN send_image(st, upd)
  ELSE IF StartsWith(upd.text, SK)
  THEN <<Call("delete", upd.text, <<>>)>> \o check_user(st, upd, upd.text)
  ELSE IF upd.reply # None
  THEN LET prompt == upd.reply \o <<" in addition to ">> \o upd.text IN
       LookupRaises(st, upd)
       \o <<Call("chat_message", prompt, <<>>),
            Call("reply_markdown", ChatResponse(prompt), <<>>)>>
  ELSE LookupRaises(st, upd)
       \o <<Call("chat_message", upd.text, <<>>),
            Call("reply_markdown", ChatResponse(upd.text), <<>>)>>

get_message(st, upd) ==
  IF upd.reply # None
  THEN LET prompt == upd.reply \o <<" in addition to ">> \o upd.text IN
       LookupRaises(st, upd)
       \o <<Call("chat_message", prompt, <<>>),
            Call("reply_markdown", ChatResponse(prompt), <<>>)>>
  ELSE IF Contains(DRAW, Lower(upd.text))
  THEN send_image(st, upd)
  ELSE IF StartsWith(upd.text, SK)
  THEN <<Call("delete", upd.text, <<>>)>> \o check_user(st, upd, upd.text)
  ELSE LookupRaises(st, upd)
       \o <<Call("chat_message", upd.text, <<>>),
            Call("reply_markdown", ChatResponse(upd.text), <<>>)>>

\* the name tempfile.NamedTemporaryFile picks: one not on disk
NewTempFile(st) == TempNames[CHOOSE i \in 1..Len(TempNames) : TempNames[i] \notin st.disk
                              /\ \A j \in 1..(i - 1) : TempNames[j] \in st.disk]

download_audio_to_local(st, upd) ==
  <<Call("download_as_bytearray", <<upd.data>>, <<>>),
    MkFile(NewTempFile(st))>>

audio(st, upd) ==
  LET f == NewTempFile(st)
      voice_text == Transcript(f)
  IN <<Call("get_file", <<upd.data>>, <<>>)>>
     \o download_audio_to_local(st, upd)
     \o LookupRaises(st, upd)
     \o <<Call("transcribe_voice", <<f>>, <<>>),
          Call("chat_message", voice_text, <<>>),
          Call("reply_markdown", ChatResponse(voice_text), <<>>),
          RmFile(f)>>

\* mutant of button: the handler assigns the acting user as start does
button_sets_user(st, upd) ==
  <<SetUser(upd.sender, FullName(upd.sender)), Call("answer", <<>>, <<>>)>>
  \o (IF upd.data = "yes"
      THEN <<Call("reply_text", <<"OK. Let's Start">>, <<>>),
             Call("reply_animation", <<"06yiZTyUNXmdSFlutV">>, <<>>),
             Call("reply_text", <<"Write your API Key">>, <<>>)>>
      ELSE <<Call("reply_text", <<"OK. See you later!">>, <<>>),
             Call("reply_animation", <<"9kzGqfk7xgN0AZw3jo">>, <<>>)>>)

button(st, upd) ==
  <<Call("answer", <<>>, <<>>)>>
  \o (IF upd.data = "yes"
      THEN <<Call("reply_text", <<"OK. Let's Start">>, <<>>),
             Call("reply_animation", <<"06yiZTyUNXmdSFlutV">>, <<>>),
             Call("reply_text", <<"Write your API Key">>, <<>>)>>
      ELSE <<Call("reply_text", <<"OK. See you later!">>, <<>>),
             Call("reply_animation", <<"9kzGqfk7xgN0AZw3jo">>, <<>>)>>)

off(st, upd) ==
  IF st.user = Undefined THEN <<Raise("NameError")>>
  ELSE IF HasKey(st.user_data, upd.sender, st.user)
  THEN <<Pop(st.user), Call("reply_text", <<"Your API Key deleted">>, <<>>)>>
  ELSE <<>>

ERROR_TEXT == <<"An error occurred please try again later">>

error_message(st, upd) ==
  IF st.user = Undefined THEN <<Raise("NameError")>>
  ELSE IF ~HasKey(st.user_data, upd.sender, st.user)
  THEN start(st, upd)
  ELSE IF ~HasMessage(upd) THEN <<Raise("AttributeError")>>
  ELSE <<Call("reply_text", ERROR_TEXT, <<>>)>>

(***************************************************************************)
(* Dispatch (src/main.py)                                                  *)
(***************************************************************************)
\* the handler configure_handlers registered for an update, "none" if no one
Registered(upd) ==
  CASE upd.kind = "callback" -> "button"
    [] upd.kind = "command" /\ upd.text = <<"/start">> -> "start"
    [] upd.kind = "voice" -> "audio"
    [] upd.kind = "document" -> "handle_file"
    [] upd.kind = "text" -> "get_message"
    [] OTHER -> "none"

Program(h, st, upd) ==
  CASE h = "button" -> button(st, upd)
    [] h = "start" -> start(st, upd)
    [] h = "audio" -> audio(st, upd)
    [] h = "handle_file" -> handle_file(st, upd)
    [] h = "get_message" -> get_message(st, upd)
    [] OTHER -> <<>>

State == [user |-> user, user_name |-> user_name, manager |-> manager,
          user_data |-> user_data, disk |-> disk, validated |-> validated]

Commit(upd, h, r, e) ==
  /\ user' = e.st.user
  /\ user_name' = e.st.user_name
  /\ manager' = e.st.manager
  /\ user_data' = e.st.user_data
  /\ disk' = e.st.disk
  /\ validated' = e.st.validated
  /\ last' = [update |-> upd, handler |-> h,
              log |-> r.log, raised |-> r.raised,
              elog |-> e.log, eraised |-> e.raised,
              pre_user |-> user, pre_data |-> user_data[upd.sender]]

\* the steps up to the first exception the interpreter raises: the only ones
\* that can execute
Reachable(steps) ==
  IF \E i \in 1..Len(steps) : steps[i].op = "raise"
  THEN SubSeq(steps, 1, CHOOSE i \in 1..Len(steps) :
                          /\ steps[i].op = "raise"
                          /\ \A j \in 1..(i - 1) : steps[j].op # "raise")
  ELSE steps

\* process_update: run the registered handler; if it raised, run the error
\* handler; an exception of the error handler is logged and dropped.
\* Any one external call of the handler may fail for a transient reason
\* (network, quota); the calls of the error handler are taken to succeed.
Dispatch(upd) ==
  LET h == Registered(upd)
      prog == Reachable(Program(h, State, upd))
  IN \E failAt \in 0..NumCalls(prog) :
       LET r == Run(State, upd.sender, prog, failAt) IN
       IF r.raised
       THEN Commit(upd, h, r, Run(r.st, upd.sender, Reachable(error_message(r.st, upd)), 0))
       ELSE Commit(upd, h, r, [st |-> r.st, log |-> <<>>, raised |-> FALSE])

StartCommand ==
  \E s \in Users :
    LET upd == Update("command", s, <<"/start">>, None, "", None, "") IN
    /\ Registered(upd) = "start"
    /\ Dispatch(upd)

\* /off: a command, so the text handler's filter (~COMMAND) excludes it, and
\* no CommandHandler is registered for it
OffCommand ==
  \E s \in Users :
    LET upd == Update("command", s, <<"/off">>, None, "", None, "") IN
    /\ Registered(upd) = "none"
    /\ Dispatch(upd)

TextMessage ==
  \E s \in Users, t \in Texts, r \in RepliedTexts \cup {None} :
    LET upd == Update("text", s, t, r, "", None, "") IN
    /\ Registered(upd) = "get_message"
    /\ Dispatch(upd)

VoiceMessage ==
  \E s \in Users :
    LET upd == Update("voice", s, None, None, "", None, "voice1") IN
    /\ Cardinality(disk) < MaxFiles
    /\ Registered(upd) = "audio"
    /\ Dispatch(upd)

DocumentMessage ==
  \E s \in Users, m \in MimeTypes, d \in Docs, c \in {None, T_hi} :
    LET upd == Update("document", s, None, None, m, c, d) IN
    /\ Registered(upd) = "handle_file"
    /\ Dispatch(upd)

ButtonClick ==
  \E s \in Users, d \in {"yes", "no"} :
    LET upd == Update("callback", s, None, None, "", None, d) IN
    /\ Registered(upd) = "button"
    /\ Dispatch(upd)

\* the process is stopped and started again: globals and user_data are gone,
\* files on disk stay
Restart ==
  /\ user' = Undefined
  /\ user_name' = <<Undefined>>
  /\ manager' = NoSession
  /\ user_data' = [s \in Users |-> [k \in Users |-> NoSession]]
  /\ disk' = disk
  /\ validated' = {}
  /\ last' = [update |-> NoUpdate, handler |-> "restart",
              log |-> <<>>, raised |-> FALSE, elog |-> <<>>, eraised |-> FALSE,
              pre_user |-> user, pre_data |-> [k \in Users |-> NoSession]]

Init ==
  /\ user = Undefined
  /\ user_name = <<Undefined>>
  /\ manager = NoSession
  /\ user_data = [s \in Users |-> [k \in Users |-> NoSession]]
  /\ disk = {}
  /\ validated = {}
  /\ last = [update |-> NoUpdate, handler |-> "init",
             log |-> <<>>, raised |-> FALSE, elog |-> <<>>, eraised |-> FALSE,
             pre_user |-> Undefined, pre_data |-> [k \in Users |-> NoSession]]

Next ==
  \/ StartCommand
  \/ OffCommand
  \/ TextMessage
  \/ VoiceMessage
  \/ DocumentMessage
  \/ ButtonClick
  \/ Restart

Spec == Init /\ [][Next]_vars

(***************************************************************************)
(* The retrieval functions on their own: any sequence of calls, by any     *)
(* user, on any of the sample files and questions; any one call of the     *)
(* function may fail.                                                      *)
(***************************************************************************)
Questions == {T_hi, T_draw, SUMMARIZE}

\* the record of one call of a retrieval function
Answered(fn, s, d, q, r) ==
  [update |-> Update("document", s, None, None, "", q, d), handler |-> fn,
   log |-> r.log, raised |-> r.raised, elog |-> <<>>, eraised |-> FALSE,
   pre_user |-> user, pre_data |-> user_data[s]]

AnswerFromText ==
  \E s \in Users, d \in RagDocs, q \in Questions :
    LET steps == rag_with_documents_from_text(d, DocText(d), q) IN
    \E failAt \in 0..NumCalls(steps) :
      /\ last' = Answered("rag_with_documents_from_text", s, d, q, Run(State, s, steps, failAt))
      /\ UNCHANGED <<user, user_name, manager, user_data, disk, validated>>

AnswerFromFile ==
  \E s \in Users, d \in RagDocs, q \in Questions :
    LET steps == rag_with_documents(d, q) IN
    \E failAt \in 0..NumCalls(steps) :
      /\ last' = Answered("rag_with_documents", s, d, q, Run(State, s, steps, failAt))
      /\ UNCHANGED <<user, user_name, manager, user_data, disk, validated>>

NextRag ==
  \/ AnswerFromText
  \/ AnswerFromFile

SpecRag == Init /\ [][NextRag]_vars

(***************************************************************************)
(* Reading the history of the last update                                  *)
(***************************************************************************)
\* the external call api was made (it returned or it raised)
Attempted(log, api) ==
  \E i \in 1..Len(log) : log[i].api = api /\ log[i].op \in {"call", "failed"}

\* the external call api was made and returned
Succeeded(log, api) ==
  \E i \in 1..Len(log) : log[i].api = api /\ log[i].op = "call"

\* the external call api was made and raised
Failed(log, api) ==
  \E i \in 1..Len(log) : log[i].api = api /\ log[i].op = "failed"

\* a message reached the user
Replied(log) ==
  \E i \in 1..Len(log) :
    /\ log[i].op = "call"
    /\ log[i].api \in {"reply_text", "reply_markdown", "reply_animation", "reply_photo"}

\* the files the handlers of the last update wrote
FilesWritten(log) == {log[i].a[1] : i \in {j \in 1..Len(log) : log[j].op = "mkfile"}}

\* the sender of the last update has a session under some key
SenderHasSession == \E k \in Users : HasKey(user_data, last.update.sender, k)

\* before the last update, its sender had a session under the acting-user key
WasActive == last.pre_user \in Users /\ last.pre_data[last.pre_user] # NoSession

(***************************************************************************)
(* Claims                                                                  *)
(***************************************************************************)

\* C1 (as stated): once a voice message was handled and transcription was
\* attempted, the temporary audio file the handler wrote is no longer on
\* disk, whether transcription and the chat call returned or raised.
C1_AudioFileRemoved ==
  (last.handler = "audio" /\ Attempted(last.log, "transcribe_voice"))
    => FilesWritten(last.log) \cap disk = {}

\* C2: every session in the session map was built from a key check_api_key
\* succeeded for, and an update whose key validation failed stores nothing.
C2_SessionOnlyIfValidated ==
  /\ \A s \in Users, k \in Users :
       HasKey(user_data, s, k) => user_data[s][k].api_key \in validated
  /\ Failed(last.log, "models_list") => user_data[last.update.sender] = last.pre_data

\* C2 witness: a key was validated and its session stored, and (elsewhere) a
\* validation failed
C2_Witness ==
  /\ last.handler = "get_message"
  /\ Succeeded(last.log, "models_list")
  /\ HasKey(user_data, last.update.sender, user)
  /\ user_data[last.update.sender][user] = OpenAIModelManager(last.update.text)

\* C3 (as stated): a validated session is stored under the identifier of the
\* user who sent the key, whatever updates of other users were handled.
C3_SessionUnderOwnId ==
  \A s \in Users, k \in Users : HasKey(user_data, s, k) => k = s

\* C4 (as stated, in the case most favourable to it: the message is not a
\* reply, a /start has set the acting user, and no session is stored under
\* it): a text beginning with "sk-" is deleted from the chat and, once
\* deleted, key validation is attempted.
C4_KeyTextDeletedAndValidated ==
  ( /\ last.handler = "get_message"
    /\ StartsWith(last.update.text, SK)
    /\ last.update.reply = None
    /\ last.pre_user \in Users
    /\ ~WasActive )
    => /\ Attempted(last.log, "delete")
       /\ Succeeded(last.log, "delete") => Attempted(last.log, "models_list")

\* C5: a text message that does not begin with "sk-" never reaches key
\* validation (OpenAIModelManager construction / check_api_key), neither in
\* its handler nor in the error handler, whether or not a session exists.
C5_NonKeyNeverValidated ==
  (last.update.kind = "text" /\ ~StartsWith(last.update.text, SK))
    => /\ ~Attempted(last.log, "models_list")
       /\ ~Attempted(last.elog, "models_list")
       /\ \A i \in 1..Len(last.log) : last.log[i].op \notin {"set_manager", "store"}

\* C5 witness: a user who was asked for a key (acting user set, no session)
\* sent a text without the prefix, and it was handled
C5_Witness ==
  /\ last.update.kind = "text"
  /\ last.update.text = T_hi
  /\ last.update.reply = None
  /\ last.pre_user \in Users
  /\ ~WasActive
  /\ last.raised
  /\ Replied(last.elog)

\* C6 (as stated): when a user with a session sends the forget-key command
\* /off, the session is removed from the session map.
C6_OffRemovesSession ==
  (last.update.text = <<"/off">> /\ WasActive)
    => ~HasKey(user_data, last.update.sender, last.pre_user)

\* C7 (as stated): when a handler raised, a sender without a session gets
\* the greeting flow again, and a sender with a session gets exactly the
\* generic error text and keeps the session map entry unchanged.
C7_ErrorHandling ==
  last.raised =>
    IF ~SenderHasSession
    THEN \E i \in 1..Len(last.elog) :
           last.elog[i] = Call("reply_markdown", GreetText(FullName(last.update.sender)), <<>>)
    ELSE /\ last.elog = <<Call("reply_text", ERROR_TEXT, <<>>)>>
         /\ user_data[last.update.sender] = last.pre_data

\* C8 (as stated): every failure raised while an update is handled, in any
\* state, is caught and answered by a chat message.
C8_EveryFailureAnswered ==
  last.raised => (~last.eraised /\ Replied(last.elog))

\* C9 (as stated): when the service rejects a submitted key, no session is
\* stored, the onboarding is not restarted and an error report is sent.
C9_InvalidKeyReported ==
  (Failed(last.log, "models_list") /\ last.update.text \notin ValidKeys)
    => /\ ~SenderHasSession
       /\ ~\E i \in 1..Len(last.elog) : last.elog[i].a = GreetText(FullName(last.update.sender))
       /\ ~\E i \in 1..Len(last.elog) : last.elog[i].a = START_MESSAGE
       /\ Replied(last.elog)

\* the first step of the last handler was the external call api on input a
FirstCall(api, a) ==
  /\ Len(last.log) >= 1
  /\ last.log[1].op \in {"call", "failed"}
  /\ last.log[1].api = api
  /\ last.log[1].a = a

\* C10 (as stated): for an Active user every text without the key prefix
\* goes to image generation, with the full text as prompt, when it contains
\* "draw" (in any letter case), and to chat otherwise.
C10_DrawToImageElseChat ==
  (last.handler = "get_message" /\ WasActive /\ ~StartsWith(last.update.text, SK))
    => IF Contains(DRAW, Lower(last.update.text))
       THEN FirstCall("create_image", last.update.text)
       ELSE last.log[1].api = "chat_message"

\* C10 (amended): for an Active user a text without the key prefix that is
\* not a reply goes to image generation when its lower-cased text contains
\* "draw" (prompt: the full text; reply: a photo captioned with the revised
\* prompt) and to chat otherwise; a text that is a reply always goes to chat
\* as "<replied text> in addition to <text>".
C10_Routing ==
  (last.handler = "get_message" /\ WasActive /\ ~StartsWith(last.update.text, SK))
    => LET t == last.update.text
           combined == last.update.reply \o <<" in addition to ">> \o t
       IN IF last.update.reply # None
          THEN /\ FirstCall("chat_message", combined)
               /\ ~Attempted(last.log, "create_image")
               /\ ~last.raised => last.log[2] = Call("reply_markdown", ChatResponse(combined), <<>>)
          ELSE IF Contains(DRAW, Lower(t))
          THEN /\ FirstCall("create_image", t)
               /\ ~Attempted(last.log, "chat_message")
               /\ ~last.raised => last.log[2] = Call("reply_photo", ImageUrl(t), RevisedPrompt(t))
          ELSE /\ FirstCall("chat_message", t)
               /\ ~Attempted(last.log, "create_image")
               /\ ~last.raised => last.log[2] = Call("reply_markdown", ChatResponse(t), <<>>)

\* C10 witness: an Active user sent "draw x" and got the photo
C10_Witness ==
  /\ last.handler = "get_message"
  /\ WasActive
  /\ last.update.reply = None
  /\ last.update.text = T_draw
  /\ ~last.raised
  /\ last.log = <<Call("create_image", T_draw, <<"1024x1024">>),
                  Call("reply_photo", ImageUrl(T_draw), RevisedPrompt(T_draw))>>

\* calls of the hosted models: chat, images, speech, key validation,
\* embedding (index construction) and retrieval
ModelApis == {"chat_message", "create_image", "transcribe_voice", "models_list",
              "FAISS.from_documents", "get_relevant_documents"}

\* log is what executing the steps of full leaves when its last call raised
RaisedIn(log, full) ==
  /\ Len(log) >= 1
  /\ Len(log) <= Len(full)
  /\ \A i \in 1..(Len(log) - 1) : log[i] = full[i]
  /\ log[Len(log)] = [full[Len(log)] EXCEPT !.op = "failed"]

\* C11: a document whose MIME type is neither text/plain nor application/pdf
\* is answered by exactly the reply "Please send the file in PDF or TXT
\* format" (nothing else is sent by the handler, and the reply is sent unless
\* a Telegram call raises), no model call (chat, embedding, retrieval) is
\* made, and the sender's session map is what it was.
C11_UnsupportedTypeRejected ==
  (last.handler = "handle_file"
   /\ last.update.mime \notin {"text/plain", "application/pdf"})
    => LET full == <<Call("get_file", <<last.update.data>>, <<>>),
                     Call("reply_text", REJECTION, <<>>)>>
       IN /\ \A api \in ModelApis : ~Attempted(last.log, api) /\ ~Attempted(last.elog, api)
          /\ user_data[last.update.sender] = last.pre_data
          /\ IF last.raised THEN RaisedIn(last.log, full) ELSE last.log = full

\* C11 witness: an Active user sent a Word file and got the rejection
C11_Witness ==
  /\ last.handler = "handle_file"
  /\ last.update.mime = "application/msword"
  /\ WasActive
  /\ ~last.raised
  /\ last.log[2] = Call("reply_text", REJECTION, <<>>)
  /\ user_data[last.update.sender] = last.pre_data

\* C12: for an Active user (a session is stored for the sender under the
\* acting-user key) a text/plain document is answered by
\* rag_with_documents_from_text on the downloaded text and an application/pdf
\* document by rag_with_documents on the file path, each with the caption as
\* the question ("Summarize this file" when the message has no caption), and
\* the reply is the text the chat call of that function returned.
C12_DocumentAnswered ==
  (last.handler = "handle_file" /\ WasActive
   /\ last.update.mime \in {"text/plain", "application/pdf"})
    => LET d == last.update.data
           q == IF last.update.caption # None THEN last.update.caption ELSE SUMMARIZE
           answer == IF last.update.mime = "text/plain"
                     THEN <<Call("requests_get", <<d>>, <<>>)>>
                          \o rag_with_documents_from_text(d, DocText(d), q)
                     ELSE rag_with_documents(d, q)
           model_answer == ChatResponse(answer[Len(answer)].a)
           full == <<Call("get_file", <<d>>, <<>>)>> \o answer
                   \o <<Call("reply_text", model_answer, <<>>)>>
       IN /\ IF last.raised THEN RaisedIn(last.log, full) ELSE last.log = full
          /\ (last.update.mime = "application/pdf") = Attempted(full, "PyPDFLoader.load")
          /\ full[Len(full) - 1].api = "chat_message"

\* C12 witness: an Active user sent a PDF with a caption and got the answer
C12_Witness ==
  /\ last.handler = "handle_file"
  /\ WasActive
  /\ last.update.mime = "application/pdf"
  /\ last.update.caption = T_hi
  /\ ~last.raised
  /\ Succeeded(last.log, "PyPDFLoader.load")
  /\ \E i \in 1..(Len(last.log) - 1) :
       /\ last.log[i].api = "chat_message"
       /\ Contains(T_hi, last.log[i].a)
       /\ last.log[i + 1] = Call("reply_text", ChatResponse(last.log[i].a), <<>>)

\* C13: a user without a session who sends /start gets the greeting, the
\* animation, (the skills message) and then the continuation prompt, in
\* that order; the "No" button gets the farewell text and the farewell
\* animation, and the sender's session map stays what it was.
C13_StartThenNo ==
  /\ (last.handler = "start" /\ \A k \in Users : last.pre_data[k] = NoSession)
       => LET s == last.update.sender
              full == <<SetUser(s, FullName(s)),
                        Call("reply_markdown", GreetText(FullName(s)), <<>>),
                        Call("reply_animation", <<"JFz7YZA0vhiGlAYCSn">>, <<>>),
                        Call("reply_markdown", START_MESSAGE, <<>>),
                        Call("reply_text", <<"Would you like to continue?">>, <<"Yes", "No">>)>>
          IN /\ IF last.raised THEN RaisedIn(last.log, full) ELSE last.log = full
             /\ user_data[s] = last.pre_data
  /\ (last.handler = "button" /\ last.update.data = "no")
       => LET full == <<Call("answer", <<>>, <<>>),
                        Call("reply_text", <<"OK. See you later!">>, <<>>),
                        Call("reply_animation", <<"9kzGqfk7xgN0AZw3jo">>, <<>>)>>
          IN /\ IF last.raised THEN RaisedIn(last.log, full) ELSE last.log = full
             /\ user_data[last.update.sender] = last.pre_data

\* C13 witness: a user who sent /start and has no session tapped "No" and got
\* the farewell
C13_Witness ==
  /\ last.handler = "button"
  /\ last.update.data = "no"
  /\ last.pre_user = last.update.sender
  /\ ~last.raised
  /\ Len(last.log) = 3
  /\ \A k \in Users : user_data[last.update.sender][k] = NoSession

\* the position of the first step of log that is the call api, 0 if none
CallAt(log, api) ==
  IF \E i \in 1..Len(log) : log[i].api = api /\ log[i].op \in {"call", "failed"}
  THEN CHOOSE i \in 1..Len(log) :
         /\ log[i].api = api /\ log[i].op \in {"call", "failed"}
         /\ \A j \in 1..(i - 1) : ~(log[j].api = api /\ log[j].op \in {"call", "failed"})
  ELSE 0

\* the steps of log that echo a key
KeyEchoes(log) ==
  {i \in 1..Len(log) : log[i].api = "reply_text" /\ Len(log[i].a) >= 1 /\ log[i].a[1] = "Key : "}

\* C14 (as stated): a key is echoed only after its validation succeeded, the
\* echo shows the first 3 and the last 3 characters of the key around a mask,
\* and after the successful exchange the sender's session map holds a session
\* for the sender.
C14_KeyEchoedAndSessionStored ==
  last.handler = "get_message"
    => LET key == last.update.text
           s == last.update.sender
       IN /\ \A i \in KeyEchoes(last.log) :
               /\ Succeeded(SubSeq(last.log, 1, i - 1), "models_list")
               /\ StartsWith(key, SK)
               /\ last.log[i].a = <<"Key : ">> \o SubSeq(key, 1, 3) \o <<"*************">>
                                  \o SubSeq(key, Len(key) - 2, Len(key)) \o <<" success">>
          /\ (Succeeded(last.log, "models_list") /\ ~last.raised)
               => /\ KeyEchoes(last.log) # {}
                  /\ HasKey(user_data, s, s)
                  /\ user_data[s][s] = OpenAIModelManager(key)

\* the characters of a text
Chars(text) == {text[i] : i \in 1..Len(text)}

\* the fixed parts of the final prompt
TemplateParts ==
  {"\"Here is your question: ",
   "\n        We have the following information to answer it: ",
   ".\n        Use only the information provided here to answer the question. Do not go beyond this.\"\n        "}

\* the last update was one call of a retrieval function
RagCall == last.handler \in {"rag_with_documents", "rag_with_documents_from_text"}

\* the prompts of the chat calls in a log
ChatPrompts(log) ==
  {log[i].a : i \in {j \in 1..Len(log) : log[j].api = "chat_message" /\ log[j].op \in {"call", "failed"}}}

\* C15: in any sequence of calls of the two retrieval functions, by the same
\* or different users, what a call retrieves and the prompt it builds hold,
\* next to the question and the template, text of the document of that call
\* only, and no more of it than the document has: nothing of another call's
\* document appears.
C15_IndexIsolation ==
  RagCall
    => LET d == last.update.data
           q == last.update.caption
       IN /\ \A i \in 1..Len(last.log) :
               last.log[i].api = "get_relevant_documents"
                 => /\ Chars(last.log[i].b) \subseteq Chars(DocText(d))
                    /\ Len(last.log[i].b) <= Len(DocText(d))
          /\ \A prompt \in ChatPrompts(last.log) :
               /\ Chars(prompt) \subseteq TemplateParts \cup Chars(q) \cup Chars(DocText(d))
               /\ Len(prompt) <= 3 + Len(q) + Len(DocText(d))

\* C15 witness: a call on the five-page file built its prompt from pages of
\* that file
C15_Witness ==
  /\ RagCall
  /\ last.update.data = "doc2"
  /\ ~last.raised
  /\ \E prompt \in ChatPrompts(last.log) : {"B", "C", "D"} \subseteq Chars(prompt)

\* the final prompt both functions are to build for page texts and a question
FinalPrompt(pages, q) ==
  <<"\"Here is your question: ">> \o q
  \o <<"\n        We have the following information to answer it: ">>
  \o Concat(get_relevant_documents(split_documents(pages, 1000), q))
  \o <<".\n        Use only the information provided here to answer the question. Do not go beyond this.\"\n        ">>

\* C16: after the load step the two functions are one pipeline: each makes
\* exactly one chat call, with the template filled with the question and the
\* retrieved chunks joined in rank order without separator, and for a file
\* whose pages are the pages of the text both run the same steps with the
\* same prompt.
C16_SamePipeline ==
  (RagCall /\ ~last.raised)
    => LET d == last.update.data
           q == last.update.caption
           from_text == last.handler = "rag_with_documents_from_text"
           pages == IF from_text THEN <<DocText(d)>> ELSE DocPages(d)
       IN /\ ChatPrompts(last.log) = {FinalPrompt(pages, q)}
          /\ Cardinality({i \in 1..Len(last.log) : last.log[i].api = "chat_message"}) = 1
          /\ DocPages(d) = <<DocText(d)>>
               => IF from_text
                  THEN last.log = Tail(rag_with_documents(d, q))
                  ELSE Tail(last.log) = rag_with_documents_from_text(d, DocText(d), q)

\* C16 witness: the text function answered on the text of 1001 characters,
\* which makes two chunks, the second one ranked first
C16_Witness ==
  /\ last.handler = "rag_with_documents_from_text"
  /\ last.update.data = "doc3"
  /\ last.update.caption = T_hi
  /\ ~last.raised
  /\ Len(split_documents(<<DocText("doc3")>>, 1000)) = 2
  /\ Len(get_relevant_documents(split_documents(<<DocText("doc3")>>, 1000), T_hi)[1]) = 1
  /\ last.log = Tail(rag_with_documents("doc3", T_hi))

\* C17: a key is validated only by get_message, and only after the message
\* that carried it was deleted from the chat: the message is deleted whether
\* the validation then succeeds or fails, and when the deletion raises, no
\* validation is attempted (by the handler or by the error handler).
C17_DeletedBeforeValidation ==
  /\ ~Attempted(last.elog, "models_list")
  /\ Attempted(last.log, "models_list")
       => /\ last.handler = "get_message"
          /\ CallAt(last.log, "delete") # 0
          /\ CallAt(last.log, "delete") < CallAt(last.log, "models_list")
          /\ last.log[CallAt(last.log, "delete")] = Call("delete", last.update.text, <<>>)
          /\ last.log[CallAt(last.log, "models_list")].a = last.update.text
  /\ Failed(last.log, "delete") => ~Attempted(last.log, "models_list")

\* C17 witness: the message with a key the service rejects was deleted, then
\* the validation failed
C17_Witness ==
  /\ last.handler = "get_message"
  /\ last.update.text = K_bad
  /\ Succeeded(last.log, "delete")
  /\ Failed(last.log, "models_list")

C19_StoredAfterReplies ==
  /\ \A i \in 1..Len(last.elog) : last.elog[i].op # "store"
  /\ \A i \in 1..Len(last.log) :
       last.log[i].op = "store"
         => /\ last.handler = "get_message"
            /\ i >= 3
            /\ last.log[i - 2] = Call("reply_text", KeyEcho(last.update.text), <<>>)
            /\ last.log[i - 1] = Call("reply_markdown", HelloText(user_name), <<>>)
            /\ Succeeded(SubSeq(last.log, 1, i - 3), "models_list")
  /\ (Succeeded(last.log, "models_list")
      /\ (Failed(last.log, "reply_text") \/ Failed(last.log, "reply_markdown")))
       => /\ \A i \in 1..Len(last.log) : last.log[i].op # "store"
          /\ user_data[last.update.sender] = last.pre_data
          /\ ~HasKey(user_data, last.update.sender, last.pre_user)

\* C19 witness: the key was validated and echoed, the greeting raised, and
\* the sender has no session
C19_Witness ==
  /\ last.handler = "get_message"
  /\ Succeeded(last.log, "models_list")
  /\ Succeeded(last.log, "reply_text")
  /\ Failed(last.log, "reply_markdown")
  /\ \A k \in Users : user_data[last.update.sender][k] = NoSession

\* C20: a text message that is a reply to an earlier message never leads to
\* image generation, deletion of the message or key validation, whatever
\* its text; the only prompt sent to chat is "<replied text> in addition to
\* <new text>", and for an Active sender that chat call is the first thing
\* the handler does and its answer is the reply.
C20_ReplyGoesToChat ==
  (last.handler = "get_message" /\ last.update.reply # None)
    => LET combined == last.update.reply \o <<" in addition to ">> \o last.update.text
           full == <<Call("chat_message", combined, <<>>),
                     Call("reply_markdown", ChatResponse(combined), <<>>)>>
       IN /\ \A api \in {"create_image", "delete", "models_list"} :
               ~Attempted(last.log, api) /\ ~Attempted(last.elog, api)
          /\ ChatPrompts(last.log) \subseteq {combined}
          /\ user_data[last.update.sender] = last.pre_data
          /\ WasActive => IF last.raised THEN RaisedIn(last.log, full) ELSE last.log = full

\* C20 witness: an Active user replied with a text that begins with "sk-" and
\* contains "draw", and got the chat answer
C20_Witness ==
  /\ last.handler = "get_message"
  /\ last.update.reply = T_hi
  /\ last.update.text = K_draw
  /\ WasActive
  /\ ~last.raised
  /\ last.log[1] = Call("chat_message", T_hi \o <<" in addition to ">> \o K_draw, <<>>)

\* a log holds an assignment of the acting user (the one of start)
AssignsUser(log) == \E i \in 1..Len(log) : log[i].op = "set_user"

\* the handlers other than start; "none" is an update without handler (/off)
OtherHandlers == {"get_message", "audio", "handle_file", "button", "none"}

\* C21: the acting-user identifier and the display name are assigned only by
\* start, run for /start or by the error handler after a handler raised; the
\* text, voice, document, button and off handlers leave both unchanged, and
\* what they store, remove or look up is under the identifier the most
\* recent start set.
C21_UserSetOnlyByStart ==
  [][LET l == last'
         s == l.update.sender
     IN l.handler \in OtherHandlers \cup {"start"}
          => /\ AssignsUser(l.log) => l.handler = "start"
             /\ AssignsUser(l.elog) => l.raised
             /\ IF AssignsUser(l.log) \/ AssignsUser(l.elog)
                THEN user' = s /\ user_name' = FullName(s)
                ELSE user' = user /\ user_name' = user_name
             /\ l.handler \in OtherHandlers
                  => /\ \A i \in 1..Len(l.log) :
                          l.log[i].op \in {"store", "pop"} => l.log[i].a = <<user>>
                     /\ Succeeded(l.log, "chat_message") => HasKey(user_data, s, user)
                     /\ Succeeded(l.log, "create_image") => HasKey(user_data, s, user)
    ]_vars

\* C21 witness: a voice message of a user other than the acting user was
\* answered, and the acting user is the one set before it
C21_Witness ==
  /\ last.handler = "audio"
  /\ ~last.raised
  /\ user \in Users
  /\ last.update.sender # user
  /\ user = last.pre_user

\* the questions the retrieval calls of a log were made with
RetrievalQuestions(log) ==
  {log[i].a : i \in {j \in 1..Len(log) : log[j].api = "get_relevant_documents"
                                         /\ log[j].op \in {"call", "failed"}}}

\* C22: for a document of a supported type the question of the retrieval is
\* the fixed text "Summarize this file" when the message has no caption and
\* the caption, unchanged, when it has one: no other question reaches the
\* retriever or the chat prompt, and an answered document was asked exactly
\* that question.
C22_QuestionFromCaption ==
  (last.handler = "handle_file"
   /\ last.update.mime \in {"text/plain", "application/pdf"})
    => LET d == last.update.data
           question_asked == IF last.update.caption = None
                             THEN <<"Summarize this file">>
                             ELSE last.update.caption
           pages == IF last.update.mime = "text/plain" THEN <<DocText(d)>> ELSE DocPages(d)
       IN /\ RetrievalQuestions(last.log) \subseteq {question_asked}
          /\ ChatPrompts(last.log) \subseteq {FinalPrompt(pages, question_asked)}
          /\ Succeeded(last.log, "reply_text")
               => /\ RetrievalQuestions(last.log) = {question_asked}
                  /\ ChatPrompts(last.log) = {FinalPrompt(pages, question_asked)}

\* C22 witness: a text file without caption was answered, asked the default
\* question
C22_Witness ==
  /\ last.handler = "handle_file"
  /\ last.update.mime = "text/plain"
  /\ last.update.caption = None
  /\ ~last.raised
  /\ RetrievalQuestions(last.log) = {<<"Summarize this file">>}

====
